---- MODULE Spec2Model ----
(***************************************************************************)
(* Model of the GMsFEM driver of acwave (src/src/run_GMsFEM.cpp):          *)
(*   - the coarse partition planner fill_up_n_fine_cells_per_coarse,       *)
(*   - the local region processor and the assembly of the restriction      *)
(*     operator R (run_GMsFEM_serial / run_GMsFEM_parallel),               *)
(*   - the leap-frog time loop (time_step / par_time_step),                *)
(*   - the start of a run (run_GMsFEM) and the exchange of the DOF records *)
(*     between the ranks of run_GMsFEM_parallel,                           *)
(*   - the time loop of run_GMsFEM_parallel as the ranks run it side by    *)
(*     side, meeting in the collectives of the solve and of the norm,      *)
(*   - the output files run_GMsFEM_parallel opens, from its log to the     *)
(*     mesh and solution files of the time loop.                           *)
(* Each part is a state machine of its own over the shared variables; the  *)
(* variables of the parts that do not run stay at their idle values.       *)
(***************************************************************************)
EXTENDS Integers, Sequences, FiniteSets, TLC

VARIABLES
  \* ---- coarse partition planner (one axis) ----
  n_fine,       \* param.grid.nx (or ny, nz)
  n_coarse,     \* param.method.gms_Nx (or gms_Ny, gms_Nz)
  result,       \* n_fine_cell_per_coarse_x
  handed,       \* group sizes handed to the local region processor so far
  plan_pc,      \* position of the run around the planner call
  \* ---- local region processor and assembly of R ----
  param,        \* param.dimension, param.grid.*, param.method.gms_N*
  mode,         \* "serial": run_GMsFEM_serial, "parallel": run_GMsFEM_parallel
  nproc,        \* MPI_Comm_size
  kernel,       \* what compute_basis_CG returns per coarse cell: <<Height, Width>>
  junk,         \* what a read past the end of a vector yields, if it yields
  map_cell_dofs,\* fine cell -> global true DOFs (every worker's copy)
  proc,         \* rank -> the local variables of the run on that rank
  \* ---- leap-frog time loop ----
  tparam,       \* param.T, param.dt, param.step_snap, param.step_seis
  tmode,        \* "serial": time_step, "parallel": par_time_step
  M_coarse,     \* coarse mass matrix
  S_coarse,     \* coarse stiffness matrix
  b_coarse,     \* coarse source vector
  n_time_steps, \* N
  tenth,        \* 0.1 * n_time_steps as int
  time_values,  \* the samples of the source wavelet
  t_step,       \* loop variable
  U_0, U_1, U_2,\* the three time levels
  RHS,          \* right-hand side handed to the solver in the last transition
  converged,    \* whether the last solve reached the tolerance
  stalls,       \* solves so far that ran out of iterations
  steps,        \* the steps whose transition has been executed, in order
  progress,     \* the steps at which the norm was printed
  snaps,        \* the snapshots saved: cycle, time and field of each
  seis,         \* the steps at which a seismogram sample was written
  prec_built,   \* when a preconditioner of the mass solve was set up: 0 for
                \* before the loop, t for inside step t
  time_pc,      \* position of the run around the time loop
  \* ---- start of a run and exchange of the DOF records ----
  comm_size,    \* MPI_Comm_size of the run
  xmesh,        \* the fine mesh: cells, their owners, their attributes; and
                \* whether MPI_Send returns before the message is received
  xproc,        \* rank -> the local variables of the run on that rank
  net,          \* point-to-point messages sent and not yet received
  bcast,        \* the values the root has broadcast so far
  \* ---- the ranks in the parallel time loop ----
  sync,         \* the run: number of ranks, n_time_steps, tenth, coupling
  sproc,        \* rank -> position, t_step and time levels of that rank
  chan,         \* <<from, to>> -> the halo messages on their way, in order
  arrived,      \* rank -> the number of MPI_Allreduce calls it has entered
  \* ---- the output files of a rank of run_GMsFEM_parallel ----
  io            \* position of the rank, its t_step, and the files it opened

planVars == <<n_fine, n_coarse, result, handed, plan_pc>>
asmVars == <<param, mode, nproc, kernel, junk, map_cell_dofs, proc>>
timeVars == <<tparam, tmode, M_coarse, S_coarse, b_coarse, n_time_steps, tenth,
              time_values, t_step, U_0, U_1, U_2, RHS, converged, stalls,
              steps, progress, snaps, seis, prec_built, time_pc>>
exchVars == <<comm_size, xmesh, xproc, net, bcast>>
syncVars == <<sync, sproc, chan, arrived>>
ioVars == <<io>>
vars == <<planVars, asmVars, timeVars, exchVars, syncVars, ioVars>>

\* what each part leaves alone
planFrame == <<asmVars, timeVars, exchVars, syncVars, ioVars>>
asmFrame == <<planVars, timeVars, exchVars, syncVars, ioVars>>
timeFrame == <<planVars, asmVars, exchVars, syncVars, ioVars>>
exchFrame == <<planVars, asmVars, timeVars, syncVars, ioVars>>
syncFrame == <<planVars, asmVars, timeVars, exchVars, ioVars>>
ioFrame == <<planVars, asmVars, timeVars, exchVars, syncVars>>

(***************************************************************************)
(* Bounds of the model                                                     *)
(***************************************************************************)
MaxFine == 6          \* largest number of fine cells per axis the planner sees
MaxN == 2             \* largest nx, ny of a grid whose R is assembled
MaxNz == 1            \* largest nz of such a grid
MaxCoarseCells == 4   \* largest number of coarse cells of such a grid
MaxBad == 1           \* coarse cells whose basis height is not the sub-mesh's DOF count
MaxProc == 2          \* largest number of MPI ranks
MaxT == 10            \* largest param.T, in ticks
MaxStall == 1         \* solves of one run that may run out of iterations
MaxBuf == 5           \* longest buffer handed to the parser on its own
MaxParseCells == 2    \* largest globNE of the parser on its own
MaxIoSteps == 3       \* largest n_time_steps of a run whose output files are followed
MaxCells == 3         \* largest number of fine cells of a mesh whose DOFs are exchanged

\* the values a read past the end of a vector may deliver
Junk == {-1, 0}

\* the numbers of basis functions (widths) a local basis may have
BasisWidths == {1, 2}

\* how far the height of a local basis may be from the sub-mesh's DOF count
HeightSlack == {-1, 0, 1}

\* MethodParameters::MethodParameters(): order(1)
order == 1

(***************************************************************************)
(* C++ integer arithmetic                                                  *)
(***************************************************************************)
\* int / int truncates toward zero (b # 0)
CDiv(a, b) ==
  IF a >= 0
    THEN (IF b > 0 THEN a \div b ELSE -(a \div (-b)))
    ELSE (IF b > 0 THEN -((-a) \div b) ELSE (-a) \div (-b))

\* int % int has the sign of the dividend (b # 0)
CMod(a, b) == a - b * CDiv(a, b)

RECURSIVE SumSeq(_)
SumSeq(s) == IF s = <<>> THEN 0 ELSE s[1] + SumSeq(Tail(s))

(***************************************************************************)
(* Coarse partition planner                                                *)
(***************************************************************************)
\* the planner without its second loop: the remainder is dropped
fill_up_without_remainder(nf, nc, res) ==
  [i \in 1..Len(res) |-> CDiv(nf, nc)]

\* the planner with the remainder put on the LAST groups
fill_up_remainder_last(nf, nc, res) ==
  LET k == CDiv(nf, nc)
      p == CMod(nf, nc)
  IN  [i \in 1..Len(res) |-> IF i > Len(res) - p THEN k + 1 ELSE k]

\* fill_up_n_fine_cells_per_coarse(n_fine, n_coarse, result), for nc # 0 and
\* n_fine % n_coarse <= result.size(): every entry is set to the quotient and
\* the first n_fine % n_coarse entries are incremented
fill_up_n_fine_cells_per_coarse(nf, nc, res) ==
  LET k == CDiv(nf, nc)
      p == CMod(nf, nc)
  IN  [i \in 1..Len(res) |-> IF i <= p THEN k + 1 ELSE k]

\* GridParameters::check_parameters accepts a generated grid only with n > 0;
\* the coarse count is not checked anywhere
PlanIdle ==
  /\ n_fine = 0
  /\ n_coarse = 0
  /\ result = <<>>
  /\ handed = <<>>
  /\ plan_pc = "idle"

AsmIdle ==
  /\ param = <<>>
  /\ mode = "idle"
  /\ nproc = 0
  /\ kernel = <<>>
  /\ junk = 0
  /\ map_cell_dofs = <<>>
  /\ proc = <<>>

TimeIdle ==
  /\ tparam = <<>>
  /\ tmode = "idle"
  /\ M_coarse = <<>>
  /\ S_coarse = <<>>
  /\ b_coarse = <<>>
  /\ n_time_steps = 0
  /\ tenth = 0
  /\ time_values = <<>>
  /\ t_step = 0
  /\ U_0 = <<>>
  /\ U_1 = <<>>
  /\ U_2 = <<>>
  /\ RHS = <<>>
  /\ converged = TRUE
  /\ stalls = 0
  /\ steps = <<>>
  /\ progress = <<>>
  /\ snaps = <<>>
  /\ seis = <<>>
  /\ prec_built = <<>>
  /\ time_pc = "idle"

ExchIdle ==
  /\ comm_size = 0
  /\ xmesh = <<>>
  /\ xproc = <<>>
  /\ net = {}
  /\ bcast = <<>>

SyncIdle ==
  /\ sync = <<>>
  /\ sproc = <<>>
  /\ chan = <<>>
  /\ arrived = <<>>

IoIdle == io = <<>>

InitPlan ==
  /\ AsmIdle
  /\ TimeIdle
  /\ ExchIdle
  /\ SyncIdle
  /\ IoIdle
  /\ n_fine \in 1..MaxFine
  /\ n_coarse \in (-1)..(MaxFine + 1)
  /\ result = <<>>
  /\ handed = <<>>
  /\ plan_pc = "alloc"

\* std::vector<int> n_fine_cell_per_coarse_x(param.method.gms_Nx): a negative
\* count converts to a huge size_t and the constructor throws
PlanAlloc ==
  /\ plan_pc = "alloc"
  /\ IF n_coarse < 0
       THEN /\ plan_pc' = "length_error"
            /\ result' = result
       ELSE /\ plan_pc' = "fill"
            /\ result' = [i \in 1..n_coarse |-> 0]
  /\ UNCHANGED <<n_fine, n_coarse, handed>>
  /\ UNCHANGED planFrame

\* the call of the planner. n_coarse = 0 divides by zero, which is undefined:
\* the division traps (x86), or it yields 0 (ARM), the remainder is then
\* n_fine > 0 and the second loop writes through the empty vector's null
\* data pointer
PlanFill ==
  /\ plan_pc = "fill"
  /\ IF n_coarse = 0
       THEN /\ plan_pc' \in {"sigfpe", "segv"}
            /\ result' = result
       ELSE /\ plan_pc' = "planned"
            /\ result' = fill_up_n_fine_cells_per_coarse(n_fine, n_coarse, result)
  /\ UNCHANGED <<n_fine, n_coarse, handed>>
  /\ UNCHANGED planFrame

\* one iteration of the coarse-cell loop along this axis: the group size is
\* read and a sub-mesh of that many fine cells is built
PlanHandOff ==
  /\ plan_pc = "planned"
  /\ IF Len(handed) < n_coarse
       THEN /\ handed' = Append(handed, result[Len(handed) + 1])
            /\ plan_pc' = plan_pc
       ELSE /\ handed' = handed
            /\ plan_pc' = "done"
  /\ UNCHANGED <<n_fine, n_coarse, result>>
  /\ UNCHANGED planFrame

NextPlan == PlanAlloc \/ PlanFill \/ PlanHandOff

SpecPlan == InitPlan /\ [][NextPlan]_vars

PlanReturned == plan_pc \in {"planned", "done"}

PlanPre == 0 < n_coarse /\ n_coarse <= n_fine

\* C1: for 0 < n_coarse <= n_fine the planner, called with a vector of
\* n_coarse entries, leaves n_coarse entries whose sum is n_fine and of which
\* no two differ by more than 1
C1_EvenSplit ==
  (PlanReturned /\ PlanPre) =>
    /\ Len(result) = n_coarse
    /\ SumSeq(result) = n_fine
    /\ \A i, j \in 1..Len(result) : result[i] - result[j] <= 1

C1_Witness ==
  /\ plan_pc = "planned"
  /\ n_coarse = 3
  /\ n_fine = 5

\* C2: for 0 < n_coarse <= n_fine entry i (from 0) is floor(n_fine/n_coarse)+1
\* when i < n_fine mod n_coarse and floor(n_fine/n_coarse) otherwise, so the
\* sequence is non-increasing
C2_RemainderFirst ==
  (PlanReturned /\ PlanPre) =>
    /\ \A i \in 0..(n_coarse - 1) :
         result[i + 1] = (n_fine \div n_coarse)
                         + (IF i < n_fine % n_coarse THEN 1 ELSE 0)
    /\ \A i \in 1..(Len(result) - 1) : result[i] >= result[i + 1]

C2_Witness ==
  /\ plan_pc = "planned"
  /\ n_coarse = 4
  /\ n_fine = 6
  /\ result = <<2, 2, 1, 1>>

\* C3: whenever n_coarse <= 0 or n_coarse > n_fine the planner fails: no
\* grouping is produced, the run does not continue with one, and no group of
\* zero fine cells is handed to the local region processor
C3_BadCountsRejected ==
  /\ (n_coarse <= 0 \/ n_coarse > n_fine) => ~PlanReturned
  /\ \A i \in 1..Len(handed) : handed[i] > 0

(***************************************************************************)
(* Local region processor and assembly of R                                *)
(***************************************************************************)
RECURSIVE Pow(_, _)
Pow(b, e) == IF e = 0 THEN 1 ELSE b * Pow(b, e - 1)

\* the DOFs of one cell of DG_FECollection(param.method.order, dim)
DofsPerCell(dim) == Pow(order + 1, dim)

\* param.mesh->GetNE() of the generated grid
NElements(pm) ==
  IF pm.dimension = 2 THEN pm.nx * pm.ny ELSE pm.nx * pm.ny * pm.nz

\* S_fine.Height(), fespace.GlobalTrueVSize(): the dimension of the fine space
FineDim(pm) == NElements(pm) * DofsPerCell(pm.dimension)

\* n_coarse_cells
NCoarseCells(pm) ==
  IF pm.dimension = 2 THEN pm.gms_Nx * pm.gms_Ny
                      ELSE pm.gms_Nx * pm.gms_Ny * pm.gms_Nz

\* n_fine_cell_per_coarse_x, _y, _z as the run computes them
PerCoarse(n, g) == fill_up_n_fine_cells_per_coarse(n, g, [i \in 1..g |-> 0])

\* the fine cells of the sub-mesh of coarse cell c (from 0)
SubMeshCells(pm, c) ==
  LET nfx == PerCoarse(pm.nx, pm.gms_Nx)[(c % pm.gms_Nx) + 1]
      nfy == PerCoarse(pm.ny, pm.gms_Ny)[((c \div pm.gms_Nx) % pm.gms_Ny) + 1]
  IN  IF pm.dimension = 2
        THEN nfx * nfy
        ELSE nfx * nfy
             * PerCoarse(pm.nz, pm.gms_Nz)[(c \div (pm.gms_Nx * pm.gms_Ny)) + 1]

\* DG_fespace.GetVSize() on the sub-mesh of coarse cell c
SubMeshDofs(pm, c) == SubMeshCells(pm, c) * DofsPerCell(pm.dimension)

\* FiniteElementSpace::GetElementVDofs of a DG space: the DOFs of element el
ElementVDofs(el, nd) == [d \in 1..nd |-> el * nd + (d - 1)]

\* the rank whose ParMesh holds fine cell el: contiguous blocks of cells, given
\* to the ranks in ascending or in descending order
FineOwner(pattern, el, ne, np) ==
  LET blk == (el * np) \div ne
  IN  IF pattern = "ascending" THEN blk ELSE np - 1 - blk

\* fespace.GetGlobalTDofNumber over the DOFs of fine cell el: a rank's true
\* DOFs follow those of the lower ranks, its elements keep their mesh order
GlobalTDofs(pattern, el, ne, np, nd) ==
  LET own == FineOwner(pattern, el, ne, np)
      before == Cardinality({e \in 0..(ne - 1) :
                   \/ FineOwner(pattern, e, ne, np) < own
                   \/ FineOwner(pattern, e, ne, np) = own /\ e < el})
  IN  ElementVDofs(before, nd)

\* the table the DOF exchange leaves on every worker
ExchangedTable(pattern, pm, np) ==
  [g \in 1..NElements(pm) |->
     GlobalTDofs(pattern, g - 1, NElements(pm), np, DofsPerCell(pm.dimension))]

\* the first coarse cell of a rank without the share of the extra cells
my_start_cell_no_extra(n, np, myid) == CDiv(n, np) * myid

\* first coarse cell of rank myid
my_start_cell(n, np, myid) ==
  LET min_n_cells == CDiv(n, np)
      extra_cells == CMod(n, np)
  IN  min_n_cells * myid + (IF extra_cells < myid THEN extra_cells ELSE myid)

\* one past the last coarse cell of rank myid
my_end_cell(n, np, myid) ==
  my_start_cell(n, np, myid) + CDiv(n, np) + (IF CMod(n, np) > myid THEN 1 ELSE 0)

\* a default-constructed DenseMatrix
DefaultMatrix == [h |-> 0, w |-> 0, cell |-> -1]

\* the number of local bases (and of maps) a run holds
NLocal(pm, md, np, myid) ==
  IF md = "serial"
    THEN NCoarseCells(pm)
    ELSE IF pm.dimension = 2
      THEN my_end_cell(NCoarseCells(pm), np, myid)
           - my_start_cell(NCoarseCells(pm), np, myid)
      ELSE 0

\* the local variables of a run when it enters the coarse-cell loop
NewRun(pm, md, np, myid) ==
  [pc |-> "local",
   iz |-> 0, iy |-> 0, ix |-> 0,
   offset_x |-> 0, offset_y |-> 0, offset_z |-> 0,
   R |-> [c \in 1..NLocal(pm, md, np, myid) |-> DefaultMatrix],
   local2global |-> [c \in 1..NLocal(pm, md, np, myid) |-> <<>>],
   local2global_serial |-> [c \in 1..NLocal(pm, md, np, myid) |-> <<>>],
   glob_cells |-> [c \in 1..NLocal(pm, md, np, myid) |-> {}],
   my_nrows |-> 0, my_ncols |-> 0, my_nnonzero |-> 0,
   glob_nrows |-> 0, glob_ncols |-> 0,
   Ri |-> <<>>, Rj |-> <<>>, Rdata |-> <<>>,
   k |-> 0, p |-> 0, r |-> 0, i |-> 0,
   R_global |-> [height |-> -1, width |-> -1]]

\* the results compute_basis_CG may deliver for the coarse cells of a grid
KernelChoices(pm) ==
  LET cells == 0..(NCoarseCells(pm) - 1)
      picks == {g \in [cells -> HeightSlack \X BasisWidths] :
                  Cardinality({c \in cells : g[c][1] # 0}) <= MaxBad}
  IN  {[c \in cells |-> <<SubMeshDofs(pm, c) + g[c][1], g[c][2]>>] : g \in picks}

Grids ==
  {[dimension |-> d, nx |-> x, ny |-> y, nz |-> z,
    gms_Nx |-> gx, gms_Ny |-> gy, gms_Nz |-> gz] :
     d \in {2, 3}, x \in 1..MaxN, y \in 1..MaxN, z \in 1..MaxNz,
     gx \in 1..MaxN, gy \in 1..MaxN, gz \in 1..MaxNz}

\* the grids of the model: generated grids GridParameters::check_parameters
\* accepts, with 0 < gms_N <= n on every axis
InitAsm ==
  /\ PlanIdle
  /\ TimeIdle
  /\ ExchIdle
  /\ SyncIdle
  /\ IoIdle
  /\ param \in {g \in Grids :
        /\ g.gms_Nx <= g.nx /\ g.gms_Ny <= g.ny /\ g.gms_Nz <= g.nz
        /\ (g.dimension = 2 => g.nz = 1 /\ g.gms_Nz = 1)
        /\ NCoarseCells(g) <= MaxCoarseCells}
  /\ mode \in {"serial", "parallel"}
  /\ nproc \in (IF mode = "serial" THEN {1} ELSE 1..MaxProc)
  /\ kernel \in (IF mode = "parallel" /\ param.dimension = 3
                   THEN {[c \in 0..(NCoarseCells(param) - 1) |->
                            <<SubMeshDofs(param, c), 1>>]}
                   ELSE KernelChoices(param))
  /\ junk \in (IF mode = "serial" /\ param.dimension = 3 THEN Junk ELSE {0})
  /\ map_cell_dofs \in
       (IF mode = "parallel" /\ nproc > 1 /\ param.dimension = 2
          THEN {ExchangedTable(pat, param, nproc) : pat \in {"ascending", "descending"}}
          ELSE {ExchangedTable("ascending", param, nproc)})
  /\ proc = [rank \in 0..(nproc - 1) |-> NewRun(param, mode, nproc, rank)]

\* local2global[coarse_cell].resize(R[coarse_cell].Width(), -1): the map sized
\* by the number of basis functions
MapSizeByWidth(h, w) == w

\* local2global[coarse_cell].resize(R[coarse_cell].Height(), -1)
MapSize(h, w) == h

\* a run that does not check the map
MapUnchecked(map) == TRUE

\* "check that all values were defined": every slot of the map is >= 0
MapResolved(map) == \A ii \in 1..Len(map) : map[ii] >= 0

\* the stores local2global[coarse_cell][loc_dofs[di]] = glob_dofs[di] of one
\* coarse cell, in the order of the loops over fiy, fix and di
LocalWrites(pm, md, s, nfx, nfy, tbl) ==
  LET nd == DofsPerCell(pm.dimension)
  IN  [q \in 1..(nfx * nfy * nd) |->
        LET loc_cell == (q - 1) \div nd
            di == ((q - 1) % nd) + 1
            fiy == loc_cell \div nfx
            fix == loc_cell % nfx
            glob_cell == (s.offset_y + fiy) * pm.nx + (s.offset_x + fix)
            loc_dofs == ElementVDofs(loc_cell, nd)
            glob_dofs == IF md = "serial" THEN ElementVDofs(glob_cell, nd)
                                          ELSE tbl[glob_cell + 1]
        IN  <<loc_dofs[di], glob_dofs[di]>>]

\* the DOFs of fine cell glob_cell with their order in the cell reversed
GlobDofsSerialReversed(glob_cell, nd) ==
  [d \in 1..nd |-> glob_cell * nd + (nd - d)]

\* fespace_serial.GetElementVDofs(glob_cell, glob_dofs_serial)
GlobDofsSerial(glob_cell, nd) == ElementVDofs(glob_cell, nd)

\* the stores local2global_serial[my_coarse_cell][loc_dofs[di]] =
\* glob_dofs_serial[di] of one coarse cell of run_GMsFEM_parallel
LocalWritesSerial(pm, s, nfx, nfy) ==
  LET nd == DofsPerCell(pm.dimension)
  IN  [q \in 1..(nfx * nfy * nd) |->
        LET loc_cell == (q - 1) \div nd
            di == ((q - 1) % nd) + 1
            fiy == loc_cell \div nfx
            fix == loc_cell % nfx
            glob_cell == (s.offset_y + fiy) * pm.nx + (s.offset_x + fix)
        IN  <<ElementVDofs(loc_cell, nd)[di], GlobDofsSerial(glob_cell, nd)[di]>>]

\* the stores applied in order; one whose index is past the end of the map
\* leaves the map as it is
RECURSIVE StoreAll(_, _)
StoreAll(map, writes) ==
  IF writes = <<>>
    THEN map
    ELSE LET wr == Head(writes)
         IN  StoreAll(IF wr[1] < Len(map) THEN [map EXCEPT ![wr[1] + 1] = wr[2]]
                                         ELSE map,
                      Tail(writes))

\* some store is past the end of the map
StorePastEnd(map, writes) == \E q \in 1..Len(writes) : writes[q][1] >= Len(map)

\* the fine cells (glob_cell) whose coefficients one iteration of the 2D loop
\* reads
GlobCells2D(pm, s, nfx, nfy) ==
  {(s.offset_y + fiy) * pm.nx + (s.offset_x + fix) :
     fiy \in 0..(nfy - 1), fix \in 0..(nfx - 1)}

\* one iteration of the 2D coarse-cell loop of run_GMsFEM_serial and of
\* run_GMsFEM_parallel: the outcomes it may have
LocalCell2D(pm, md, np, myid, s, kern, tbl) ==
  LET gx == pm.gms_Nx
      n_fine_y == PerCoarse(pm.ny, pm.gms_Ny)[s.iy + 1]
      n_fine_x == PerCoarse(pm.nx, gx)[s.ix + 1]
      global_coarse_cell == s.iy * gx + s.ix
      start == IF md = "serial" THEN 0 ELSE my_start_cell(NCoarseCells(pm), np, myid)
      end == IF md = "serial" THEN NCoarseCells(pm)
                              ELSE my_end_cell(NCoarseCells(pm), np, myid)
      my_coarse_cell == global_coarse_cell - start
      next(t) == IF s.ix + 1 < gx
                   THEN [t EXCEPT !.ix = s.ix + 1,
                                  !.offset_x = s.offset_x + n_fine_x]
                   ELSE [t EXCEPT !.ix = 0, !.iy = s.iy + 1,
                                  !.offset_x = IF s.iy + 1 < pm.gms_Ny
                                                 THEN 0 ELSE s.offset_x + n_fine_x,
                                  !.offset_y = s.offset_y + n_fine_y]
      basis == [h |-> kern[global_coarse_cell][1],
                w |-> kern[global_coarse_cell][2],
                cell |-> global_coarse_cell]
      map0 == [ii \in 1..MapSize(basis.h, basis.w) |-> -1]
      writes == LocalWrites(pm, md, s, n_fine_x, n_fine_y, tbl)
      map1 == StoreAll(map0, writes)
      \* run_GMsFEM_serial has no local2global_serial
      map1s == IF md = "serial"
                 THEN <<>>
                 ELSE StoreAll(map0, LocalWritesSerial(pm, s, n_fine_x, n_fine_y))
      t1 == [s EXCEPT !.R[my_coarse_cell + 1] = basis,
                      !.glob_cells[my_coarse_cell + 1] =
                         GlobCells2D(pm, s, n_fine_x, n_fine_y),
                      !.local2global[my_coarse_cell + 1] = map1,
                      !.local2global_serial[my_coarse_cell + 1] = map1s]
      \* MFEM_VERIFY(glob_cell >= 0 && glob_cell < (int)map_cell_dofs.size())
      in_range == \A fiy \in 0..(n_fine_y - 1), fix \in 0..(n_fine_x - 1) :
                    LET glob_cell == (s.offset_y + fiy) * pm.nx + (s.offset_x + fix)
                    IN  glob_cell >= 0 /\ glob_cell < Len(tbl)
  IN  IF global_coarse_cell < start \/ global_coarse_cell >= end
        THEN {next(s)}
        ELSE IF md = "parallel" /\ ~in_range
          THEN {[s EXCEPT !.R[my_coarse_cell + 1] = basis,
                          !.glob_cells[my_coarse_cell + 1] =
                             GlobCells2D(pm, s, n_fine_x, n_fine_y),
                          !.pc = "abort"]}
          ELSE (IF StorePastEnd(map0, writes) THEN {[t1 EXCEPT !.pc = "segv"]} ELSE {})
               \cup {IF MapResolved(map1) /\ MapResolved(map1s)
                       THEN next(t1) ELSE [t1 EXCEPT !.pc = "abort"]}

\* the fine cells (glob_cell) whose coefficients one iteration of the 3D loop
\* reads
GlobCells3D(pm, s, nfx, nfy, nfz) ==
  {(s.offset_z + fiz) * pm.nx * pm.ny + (s.offset_y + fiy) * pm.nx + (s.offset_x + fix) :
     fiz \in 0..(nfz - 1), fiy \in 0..(nfy - 1), fix \in 0..(nfx - 1)}

\* one iteration of the 3D coarse-cell loop of run_GMsFEM_serial: no map is
\* built and no offset is reset
LocalCell3D(pm, s, kern) ==
  LET gx == pm.gms_Nx
      gy == pm.gms_Ny
      n_fine_z == PerCoarse(pm.nz, pm.gms_Nz)[s.iz + 1]
      n_fine_y == PerCoarse(pm.ny, gy)[s.iy + 1]
      n_fine_x == PerCoarse(pm.nx, gx)[s.ix + 1]
      coarse_cell == s.iz * gx * gy + s.iy * gx + s.ix
      basis == [h |-> kern[coarse_cell][1], w |-> kern[coarse_cell][2],
                cell |-> coarse_cell]
      cells == GlobCells3D(pm, s, n_fine_x, n_fine_y, n_fine_z)
      t1 == [s EXCEPT !.R[coarse_cell + 1] = basis,
                      !.glob_cells[coarse_cell + 1] = cells]
      next(t) == IF s.ix + 1 < gx
                   THEN [t EXCEPT !.ix = s.ix + 1,
                                  !.offset_x = s.offset_x + n_fine_x]
                   ELSE IF s.iy + 1 < gy
                     THEN [t EXCEPT !.ix = 0, !.iy = s.iy + 1,
                                    !.offset_x = s.offset_x + n_fine_x,
                                    !.offset_y = s.offset_y + n_fine_y]
                     ELSE [t EXCEPT !.ix = 0, !.iy = 0, !.iz = s.iz + 1,
                                    !.offset_x = s.offset_x + n_fine_x,
                                    !.offset_y = s.offset_y + n_fine_y,
                                    !.offset_z = s.offset_z + n_fine_z]
      past == \E g \in cells : g >= NElements(pm)
  IN  (IF past THEN {[s EXCEPT !.glob_cells[coarse_cell + 1] = cells,
                               !.pc = "segv"]}
               ELSE {})
      \cup {next(t1)}

\* one step of the coarse-cell loop: its exit, or one iteration; the 3D
\* block of run_GMsFEM_parallel is empty
LocalStep(pm, md, np, myid, s, kern, tbl) ==
  IF md = "parallel" /\ pm.dimension = 3
    THEN {[s EXCEPT !.pc = "count"]}
    ELSE IF pm.dimension = 2
      THEN (IF s.iy >= pm.gms_Ny
              THEN {[s EXCEPT !.pc = "count"]}
              ELSE LocalCell2D(pm, md, np, myid, s, kern, tbl))
      ELSE (IF s.iz >= pm.gms_Nz
              THEN {[s EXCEPT !.pc = "count"]}
              ELSE LocalCell3D(pm, s, kern))

\* the sums over the local bases: n_rows, n_cols, n_non_zero; the serial run
\* verifies n_cols against the fine operator, the parallel run does not
CountDims(pm, md, s) ==
  LET t == [s EXCEPT
              !.my_nrows = SumSeq([c \in 1..Len(s.R) |-> s.R[c].w]),
              !.my_ncols = SumSeq([c \in 1..Len(s.R) |-> s.R[c].h]),
              !.my_nnonzero = SumSeq([c \in 1..Len(s.R) |-> s.R[c].h * s.R[c].w])]
  IN  IF md = "serial"
        THEN (IF t.my_ncols = FineDim(pm)
                THEN [t EXCEPT !.pc = "assemble", !.Ri = <<0>>]
                ELSE [t EXCEPT !.pc = "abort"])
        ELSE [t EXCEPT !.pc = "allreduce"]

\* the entry R[r](j, i) of the local basis of coarse cell `cell`
Entry(cell, j, i) == <<cell, j, i>>

\* the assembly with the row pointer advanced by the width of the basis
AssembleStepRowsByWidth(s, jk) ==
  IF s.r >= Len(s.R)
    THEN {[s EXCEPT !.pc = "construct"]}
    ELSE LET h == s.R[s.r + 1].h
             w == s.R[s.r + 1].w
             map == s.local2global[s.r + 1]
             cols == [j \in 1..h |-> IF j <= Len(map) THEN map[j] ELSE jk]
             vals == [j \in 1..h |-> Entry(s.R[s.r + 1].cell, j - 1, s.i)]
             t == [s EXCEPT !.Ri = Append(@, @[s.k + 1] + w),
                            !.k = @ + 1,
                            !.Rj = @ \o cols,
                            !.Rdata = @ \o vals,
                            !.p = @ + h,
                            !.i = @ + 1]
         IN  IF s.i >= w
               THEN {[s EXCEPT !.r = @ + 1, !.i = 0]}
               ELSE (IF h > Len(map) THEN {[s EXCEPT !.pc = "segv"]} ELSE {})
                    \cup {t}

\* one step of the assembly loops: the exit of the loop over r, the exit of
\* the loop over i, or one row. A read of local2global[r][j] past the end of
\* the map is undefined: the run dies, or goes on with what the read gives
AssembleStep(s, jk) ==
  IF s.r >= Len(s.R)
    THEN {[s EXCEPT !.pc = "construct"]}
    ELSE LET h == s.R[s.r + 1].h
             w == s.R[s.r + 1].w
             map == s.local2global[s.r + 1]
             cols == [j \in 1..h |-> IF j <= Len(map) THEN map[j] ELSE jk]
             vals == [j \in 1..h |-> Entry(s.R[s.r + 1].cell, j - 1, s.i)]
             t == [s EXCEPT !.Ri = Append(@, @[s.k + 1] + h),
                            !.k = @ + 1,
                            !.Rj = @ \o cols,
                            !.Rdata = @ \o vals,
                            !.p = @ + h,
                            !.i = @ + 1]
         IN  IF s.i >= w
               THEN {[s EXCEPT !.r = @ + 1, !.i = 0]}
               ELSE (IF h > Len(map) THEN {[s EXCEPT !.pc = "segv"]} ELSE {})
                    \cup {t}

\* SparseMatrix R_global(Ri, Rj, Rdata, n_rows, n_cols), and
\* HypreParMatrix R_global(comm, my_nrows, glob_nrows, glob_ncols, ...)
ConstructR(md, s) ==
  [s EXCEPT !.pc = "built",
            !.R_global = IF md = "serial"
                           THEN [height |-> s.my_nrows, width |-> s.my_ncols]
                           ELSE [height |-> s.glob_nrows, width |-> s.glob_ncols]]

Ranks == 0..(nproc - 1)

\* the ranks share no memory and meet only in the collectives: the model
\* runs them in rank order between two collectives
Turn(rank) ==
  \A q \in 0..(rank - 1) : proc[q].pc \in {"allreduce", "built", "abort", "segv"}

LocalRegion ==
  /\ \E rank \in Ranks :
       /\ Turn(rank)
       /\ proc[rank].pc = "local"
       /\ \E t \in LocalStep(param, mode, nproc, rank, proc[rank], kernel, map_cell_dofs) :
            proc' = [proc EXCEPT ![rank] = t]
  /\ UNCHANGED <<param, mode, nproc, kernel, junk, map_cell_dofs>>
  /\ UNCHANGED asmFrame

Count ==
  /\ \E rank \in Ranks :
       /\ Turn(rank)
       /\ proc[rank].pc = "count"
       /\ proc' = [proc EXCEPT ![rank] = CountDims(param, mode, proc[rank])]
  /\ UNCHANGED <<param, mode, nproc, kernel, junk, map_cell_dofs>>
  /\ UNCHANGED asmFrame

\* the two MPI_Allreduce, the gather of the row counts into Rrows, its
\* broadcast and the check of the rank's own row range
AllReduce ==
  /\ \A rank \in Ranks : proc[rank].pc = "allreduce"
  /\ LET rows == SumSeq([q \in 1..nproc |-> proc[q - 1].my_nrows])
         cols == SumSeq([q \in 1..nproc |-> proc[q - 1].my_ncols])
         Rrows == [q \in 1..(nproc + 1) |->
                     SumSeq([x \in 1..(q - 1) |-> proc[x - 1].my_nrows])]
     IN  proc' = [rank \in Ranks |->
                    IF proc[rank].my_nrows = Rrows[rank + 2] - Rrows[rank + 1]
                      THEN [proc[rank] EXCEPT !.glob_nrows = rows,
                                              !.glob_ncols = cols,
                                              !.pc = "assemble",
                                              !.Ri = <<0>>]
                      ELSE [proc[rank] EXCEPT !.glob_nrows = rows,
                                              !.glob_ncols = cols,
                                              !.pc = "abort"]]
  /\ UNCHANGED <<param, mode, nproc, kernel, junk, map_cell_dofs>>
  /\ UNCHANGED asmFrame

Assemble ==
  /\ \E rank \in Ranks :
       /\ Turn(rank)
       /\ proc[rank].pc = "assemble"
       /\ \E t \in AssembleStep(proc[rank], junk) :
            proc' = [proc EXCEPT ![rank] = t]
  /\ UNCHANGED <<param, mode, nproc, kernel, junk, map_cell_dofs>>
  /\ UNCHANGED asmFrame

Construct ==
  /\ \E rank \in Ranks :
       /\ Turn(rank)
       /\ proc[rank].pc = "construct"
       /\ proc' = [proc EXCEPT ![rank] = ConstructR(mode, proc[rank])]
  /\ UNCHANGED <<param, mode, nproc, kernel, junk, map_cell_dofs>>
  /\ UNCHANGED asmFrame

NextAsm == LocalRegion \/ Count \/ AllReduce \/ Assemble \/ Construct

SpecAsm == InitAsm /\ [][NextAsm]_vars

\* the coarse cells whose local basis a run has recorded
Processed(s) == {c \in 1..Len(s.R) : s.R[c].cell >= 0}

\* the sum of the widths of the local bases recorded by all runs
TotalWidth ==
  SumSeq([q \in 1..nproc |->
            SumSeq([c \in 1..Len(proc[q - 1].R) |-> proc[q - 1].R[c].w])])

\* C4: the assembled R has as many columns as the fine space has DOFs and as
\* many rows as the sum, over all coarse cells (of all workers), of the width
\* of the local basis
C4_RDimensions ==
  \A rank \in DOMAIN proc :
    proc[rank].pc = "built" =>
      /\ proc[rank].R_global.width = FineDim(param)
      /\ proc[rank].R_global.height = TotalWidth

\* the first row of R (from 0) that coarse cell r (from 1) of a run contributes
RowStart(s, r) == SumSeq([c \in 1..(r - 1) |-> s.R[c].w])

\* C5: in the assembled arrays coarse cell r contributes w consecutive rows
\* that start right after those of cell r-1, each of h entries, and entry j of
\* its i-th row has column local2global[r][j] and value local_basis_r[j, i]
C5_TransposedRowBlocks ==
  \A rank \in DOMAIN proc :
    LET s == proc[rank]
    IN  s.pc \in {"construct", "built"} =>
          /\ Len(s.Ri) = RowStart(s, Len(s.R) + 1) + 1
          /\ \A r \in 1..Len(s.R) : \A i \in 0..(s.R[r].w - 1) :
               LET row == RowStart(s, r) + i
               IN  /\ s.Ri[row + 2] - s.Ri[row + 1] = s.R[r].h
                   /\ \A j \in 0..(s.R[r].h - 1) :
                        /\ j < Len(s.local2global[r])
                        /\ s.Rj[s.Ri[row + 1] + j + 1] = s.local2global[r][j + 1]
                        /\ s.Rdata[s.Ri[row + 1] + j + 1] = Entry(s.R[r].cell, j, i)

C7_MapResolvedBeforeUse ==
  \A rank \in DOMAIN proc :
    proc[rank].pc \notin {"abort", "segv"} =>
      \A c \in 1..Len(proc[rank].local2global) :
        \A ii \in 1..Len(proc[rank].local2global[c]) :
          proc[rank].local2global[c][ii] >= 0

C7_Witness ==
  \E rank \in DOMAIN proc :
    /\ proc[rank].pc = "assemble"
    /\ proc[rank].k > 0
    /\ Len(proc[rank].Rj) > 0
    /\ \E c \in Processed(proc[rank]) :
         /\ Len(proc[rank].local2global[c]) > 0
         /\ \A ii \in 1..Len(proc[rank].local2global[c]) :
              proc[rank].local2global[c][ii] >= 0

(***************************************************************************)
(* Leap-frog time loop                                                     *)
(* Times are counted in ticks, so that T, dt and dt*dt are integers; the   *)
(* coarse space has two DOFs and the matrices have determinant 1, so that  *)
(* the solution of a system is an integer vector.                          *)
(***************************************************************************)
\* the values of param.dt that Parameters::check_parameters lets through
\* although they are not positive (it checks only dt < T)
BadDt == {-2, 0}

\* param.step_snap (check_parameters: step_snap > 0)
SnapSteps == {1, 3}

\* param.step_seis (check_parameters: step_seis > 0)
SeisSteps == {1, 2}

MassMatrices == {<<<<1, 0>>, <<0, 1>>>>, <<<<2, 1>>, <<1, 1>>>>}

StiffMatrices == {<<<<1, 0>>, <<0, 1>>>>, <<<<1, -1>>, <<-1, 1>>>>}

\* b_coarse: the zero source (source scale 0) and a point source
Sources == {<<0, 0>>, <<1, 0>>}

\* Vector::operator*= (double)
VecScale(c, v) == [q \in 1..Len(v) |-> c * v[q]]

\* Vector::operator-= (const Vector &)
VecSub(v, w) == [q \in 1..Len(v) |-> v[q] - w[q]]

\* SparseMatrix::Mult, HypreParMatrix::Mult
MatVec(A, v) == [q \in 1..Len(A) |-> SumSeq([c \in 1..Len(v) |-> A[q][c] * v[c]])]

\* the solution of A x = rhs for a 2 x 2 matrix of determinant 1
Solve(A, rhs) ==
  MatVec(<<<<A[2][2], -A[1][2]>>, <<-A[2][1], A[1][1]>>>>, rhs)

\* a vector set to 1.0 in every entry
OneVector(n) == [q \in 1..n |-> 1]

\* Vector U_0(M_coarse->Height()); U_0 = 0.0
ZeroVector(n) == [q \in 1..n |-> 0]

\* the time-dependent part of the source at time t (in ticks); the wavelet
\* itself is outside this code, any function of t that tells neighbouring
\* samples apart stands for it
RickerWavelet(t) == 2 - (t % 4)

\* R_global_T: the prolongation from the two coarse DOFs to three fine DOFs
R_global_T == <<<<1, 0>>, <<1, 1>>, <<0, 1>>>>

\* visit_dc.SetCycle(cycle); visit_dc.SetTime(cycle*dt);
\* R_global_T->Mult(U_0, u_tmp); u_0 takes u_tmp; visit_dc.Save()
Snapshot(cycle, dt, u) ==
  [cycle |-> cycle, time |-> cycle * dt, field |-> MatVec(R_global_T, u)]

\* SysCoarse(*M_coarse); SysCoarse = 0.0; SysCoarse += *M_coarse
SysCoarse(M) == [q \in 1..Len(M) |-> [c \in 1..Len(M[q]) |-> 0 + M[q][c]]]

\* the conjugate-gradient solve started from x: with a zero residual it
\* returns x at once; otherwise it returns the solution when it reaches the
\* tolerance (ok), and the iterate it holds after 200 iterations when it
\* does not -- for which x itself stands
PCG(A, rhs, x, ok) ==
  IF MatVec(A, x) = rhs THEN x
  ELSE IF ok THEN Solve(A, rhs) ELSE x

\* time_step with the sign of the source term flipped
time_step_plus(M, S, b, timeval, dt, SysMat, u0, u1, u2, ok) ==
  LET y == VecSub(VecScale(2, u1), u2)
      rhs == VecSub(MatVec(M, y),
                    VecScale(dt * dt, VecSub(MatVec(S, u1), VecScale(-timeval, b))))
      x == PCG(SysMat, rhs, u0, ok)
  IN  [RHS |-> rhs, U_0 |-> x, U_1 |-> x, U_2 |-> u1]

\* time_step(M, S, b, timeval, dt, SysMat, Prec, U_0, U_1, U_2)
time_step(M, S, b, timeval, dt, SysMat, u0, u1, u2, ok) ==
  LET y == VecSub(VecScale(2, u1), u2)
      z0 == MatVec(M, y)
      z1 == MatVec(S, u1)
      z2 == VecScale(timeval, b)
      y2 == VecScale(dt * dt, VecSub(z1, z2))
      rhs == VecSub(z0, y2)
      x == PCG(SysMat, rhs, u0, ok)
  IN  [RHS |-> rhs, U_0 |-> x, U_1 |-> x, U_2 |-> u1]

\* par_time_step(M, S, b, timeval, dt, U_0, U_1, U_2): the solver is built in
\* the call, on M itself, with iterative_mode = false (it starts from zero)
par_time_step(M, S, b, timeval, dt, u0, u1, u2, ok) ==
  LET y == VecSub(VecScale(2, u1), u2)
      z0 == MatVec(M, y)
      z1 == MatVec(S, u1)
      z2 == VecScale(timeval, b)
      y2 == VecScale(dt * dt, VecSub(z1, z2))
      rhs == VecSub(z0, y2)
      x == PCG(M, rhs, ZeroVector(Len(u0)), ok)
  IN  [RHS |-> rhs, U_0 |-> x, U_1 |-> x, U_2 |-> u1]

\* the source vector scaled by the sample in place
SourceScaledInPlace(b, timeval) == VecScale(timeval, b)

\* Vector z2 = b; z2 *= timeval: the sample scales a copy, b is passed by
\* const reference and is after the step what it was before
SourceAfterStep(b, timeval) == b

\* the preconditioners set up before the time loop: GSSmoother
\* PrecCoarse(SysCoarse) in run_GMsFEM_serial, none in run_GMsFEM_parallel
PrecBeforeLoop(md) == IF md = "serial" THEN <<0>> ELSE <<>>

\* the preconditioners set up in step t: none in time_step, which is handed
\* PrecCoarse; HypreSmoother M_prec of par_time_step, made and given M in
\* every call
PrecInStep(md, t) == IF md = "serial" THEN <<>> ELSE <<t>>

\* const int n_time_steps = param.T / param.dt + 0.5, for dt # 0: the
\* conversion to int truncates toward zero
NTimeSteps(T, dt) == CDiv(2 * T + dt, 2 * dt)

\* if (t_step % tenth == 0): with tenth = 0 the remainder is undefined; the
\* division traps (x86), or it yields 0 and the remainder is t_step (ARM)
GateOutcomes(t, tn) ==
  IF tn = 0 THEN {"sigfpe", "quiet"}
  ELSE IF CMod(t, tn) = 0 THEN {"print"} ELSE {"quiet"}

InitTime ==
  /\ PlanIdle
  /\ AsmIdle
  /\ ExchIdle
  /\ SyncIdle
  /\ IoIdle
  /\ \E T \in 1..MaxT : \E dt \in (1..(T - 1)) \cup BadDt : \E sn \in SnapSteps :
     \E ss \in SeisSteps :
       tparam = [T |-> T, dt |-> dt, step_snap |-> sn, step_seis |-> ss]
  /\ tmode \in {"serial", "parallel"}
  /\ M_coarse \in MassMatrices
  /\ S_coarse \in StiffMatrices
  /\ b_coarse \in Sources
  /\ n_time_steps = 0
  /\ tenth = 0
  /\ time_values = <<>>
  /\ t_step = 0
  /\ U_0 = <<>>
  /\ U_1 = <<>>
  /\ U_2 = <<>>
  /\ RHS = <<>>
  /\ converged = TRUE
  /\ stalls = 0
  /\ steps = <<>>
  /\ progress = <<>>
  /\ snaps = <<>>
  /\ seis = <<>>
  /\ prec_built = <<>>
  /\ time_pc = "setup"

\* from the three time levels to the entry of the loop: U = 0, N, tenth, the
\* samples time_values[k-1] = RickerWavelet(k*dt - dt) and the snapshot of
\* cycle 0. With dt = 0 the quotient is infinite and its conversion to int
\* undefined (INT_MIN or INT_MAX in practice), and the vector of that many
\* samples cannot be made; a negative N fails in the same constructor
TimeSetup ==
  /\ time_pc = "setup"
  /\ U_0' = ZeroVector(Len(M_coarse))
  /\ U_1' = ZeroVector(Len(M_coarse))
  /\ U_2' = ZeroVector(Len(M_coarse))
  /\ IF tparam.dt = 0
       THEN /\ time_pc' \in {"length_error", "bad_alloc"}
            /\ UNCHANGED <<n_time_steps, tenth, time_values, t_step, snaps>>
       ELSE LET N == NTimeSteps(tparam.T, tparam.dt)
            IN  /\ n_time_steps' = N
                /\ tenth' = CDiv(N, 10)
                /\ IF N < 0
                     THEN /\ time_pc' = "length_error"
                          /\ UNCHANGED <<time_values, t_step, snaps>>
                     ELSE /\ time_values' =
                               [k \in 1..N |->
                                  RickerWavelet(k * tparam.dt - tparam.dt)]
                          /\ snaps' = <<Snapshot(0, tparam.dt, ZeroVector(Len(M_coarse)))>>
                          /\ t_step' = 1
                          /\ time_pc' = "loop"
  /\ prec_built' = PrecBeforeLoop(tmode)
  /\ UNCHANGED <<tparam, tmode, M_coarse, S_coarse, b_coarse, RHS, converged,
                 stalls, steps, progress, seis>>
  /\ UNCHANGED timeFrame

\* one iteration of the time loop: the transition, the print of the norm
\* every tenth of the steps, the snapshot every step_snap steps; the block
\* that writes the seismograms every step_seis steps is commented out
TimeLoopStep ==
  /\ time_pc = "loop"
  /\ t_step <= n_time_steps
  /\ \E ok \in (IF stalls < MaxStall THEN {TRUE, FALSE} ELSE {TRUE}) :
     \E gate \in GateOutcomes(t_step, tenth) :
       LET new == IF tmode = "serial"
                    THEN time_step(M_coarse, S_coarse, b_coarse,
                                   time_values[t_step], tparam.dt,
                                   SysCoarse(M_coarse), U_0, U_1, U_2, ok)
                    ELSE par_time_step(M_coarse, S_coarse, b_coarse,
                                       time_values[t_step], tparam.dt,
                                       U_0, U_1, U_2, ok)
           solved == MatVec(M_coarse, new.U_0) = new.RHS
       IN  /\ (ok <=> solved)
           /\ RHS' = new.RHS
           /\ U_0' = new.U_0
           /\ U_1' = new.U_1
           /\ U_2' = new.U_2
           /\ converged' = solved
           /\ stalls' = IF solved THEN stalls ELSE stalls + 1
           /\ steps' = Append(steps, t_step)
           /\ IF gate = "sigfpe"
                THEN /\ time_pc' = "sigfpe"
                     /\ UNCHANGED <<progress, snaps, t_step>>
                ELSE /\ progress' = IF gate = "print" THEN Append(progress, t_step)
                                                      ELSE progress
                     /\ snaps' = IF CMod(t_step, tparam.step_snap) = 0
                                   THEN Append(snaps, Snapshot(t_step, tparam.dt, new.U_0))
                                   ELSE snaps
                     /\ t_step' = t_step + 1
                     /\ time_pc' = time_pc
  /\ b_coarse' = SourceAfterStep(b_coarse, time_values[t_step])
  /\ prec_built' = prec_built \o PrecInStep(tmode, t_step)
  /\ UNCHANGED <<tparam, tmode, M_coarse, S_coarse, n_time_steps,
                 tenth, time_values, seis>>
  /\ UNCHANGED timeFrame

\* the exit of the time loop
TimeLoopEnd ==
  /\ time_pc = "loop"
  /\ t_step > n_time_steps
  /\ time_pc' = "done"
  /\ UNCHANGED <<tparam, tmode, M_coarse, S_coarse, b_coarse, n_time_steps,
                 tenth, time_values, t_step, U_0, U_1, U_2, RHS, converged,
                 stalls, steps, progress, snaps, seis, prec_built>>
  /\ UNCHANGED timeFrame

NextTime == TimeSetup \/ TimeLoopStep \/ TimeLoopEnd

SpecTime == InitTime /\ [][NextTime]_vars

\* the run has entered the time loop
InLoop == time_pc \in {"loop", "done", "sigfpe"}

AllZero(v) == \A q \in 1..Len(v) : v[q] = 0

\* C8: the three time levels start as zero; N is T/dt rounded to the nearest
\* integer; the transitions executed are those of the steps 1, 2, ... in
\* order, each once and none after N; and a run that has left the loop has
\* executed all N of them
C8_EveryStepOnce ==
  InLoop =>
    /\ (steps = <<>> => AllZero(U_0) /\ AllZero(U_1) /\ AllZero(U_2))
    /\ (tparam.dt > 0 =>
          n_time_steps = (2 * tparam.T + tparam.dt) \div (2 * tparam.dt))
    /\ steps = [q \in 1..Len(steps) |-> q]
    /\ Len(steps) <= n_time_steps
    /\ (time_pc # "loop" => Len(steps) = n_time_steps)

\* C9: a transition at step t hands the solver the right-hand side
\* M*(2*U_1 - U_2) - dt^2*(S*U_1 - time_values[t-1]*b), the sample being the
\* wavelet at time (t-1)*dt; a solve that reaches the tolerance leaves
\* M*U_0 equal to it; afterwards U_2 is the old U_1 and U_1 is the new U_0;
\* in the serial and in the parallel run alike
C9_Transition ==
  [][steps' # steps =>
       LET t == t_step
           sample == RickerWavelet((t - 1) * tparam.dt)
           rhs == [q \in 1..Len(U_1) |->
                     SumSeq([c \in 1..Len(U_1) |->
                               M_coarse[q][c] * (2 * U_1[c] - U_2[c])])
                     - tparam.dt * tparam.dt
                       * (SumSeq([c \in 1..Len(U_1) |-> S_coarse[q][c] * U_1[c]])
                          - sample * b_coarse[q])]
       IN  /\ steps' = Append(steps, t)
           /\ time_values[t] = sample
           /\ RHS' = rhs
           /\ (converged' => MatVec(M_coarse, U_0') = rhs)
           /\ U_2' = U_1
           /\ U_1' = U_0']_vars

C9_Witness ==
  /\ tmode = "parallel"
  /\ Len(steps) >= 3
  /\ converged
  /\ ~AllZero(U_2)
  /\ U_1 # U_2
  /\ ~AllZero(RHS)
  /\ M_coarse # <<<<1, 0>>, <<0, 1>>>>
  /\ S_coarse # <<<<1, 0>>, <<0, 1>>>>

\* C10: with a zero source vector the three time levels are zero after
\* every step
C10_ZeroSourceStaysZero ==
  (InLoop /\ AllZero(b_coarse)) =>
    AllZero(U_0) /\ AllZero(U_1) /\ AllZero(U_2)

C10_Witness ==
  /\ AllZero(b_coarse)
  /\ time_pc = "done"
  /\ Len(steps) >= 10
  /\ AllZero(U_0) /\ AllZero(U_1) /\ AllZero(U_2)

\* C11: a snapshot is saved at step t exactly when t is a multiple of
\* step_snap; it is tagged with cycle t and time t*dt and its field is
\* R_global_T applied to U_0 as step t's solve left it
C11_SnapshotCadence ==
  /\ [](InLoop =>
          \A t \in 1..Len(steps) :
            (t % tparam.step_snap = 0)
              <=> (\E q \in 1..Len(snaps) : snaps[q].cycle = t))
  /\ [][(snaps # <<>> /\ snaps' # snaps) =>
          /\ steps' = Append(steps, t_step)
          /\ snaps' = Append(snaps,
                             [cycle |-> t_step,
                              time |-> t_step * tparam.dt,
                              field |-> [q \in 1..Len(R_global_T) |->
                                           SumSeq([c \in 1..Len(U_0') |->
                                                     R_global_T[q][c] * U_0'[c]])]])]_vars

\* C12: a seismogram sample is written at every step t of 1..N that is a
\* multiple of step_seis (stated for the steps whose iteration is over)
C12_SeismogramCadence ==
  InLoop =>
    \A t \in 1..(t_step - 1) :
      (t % tparam.step_seis = 0) => (\E q \in 1..Len(seis) : seis[q] = t)

\* C13: in a run of N >= 1 steps the gate t_step % tenth is defined at every
\* step (tenth # 0, the run does not trap in it) and the norm is printed at
\* exactly the executed steps that are multiples of tenth
C13_ProgressGate ==
  (InLoop /\ n_time_steps >= 1) =>
    /\ tenth # 0
    /\ time_pc # "sigfpe"
    /\ \A t \in 1..Len(steps) :
         (t % tenth = 0) <=> (\E q \in 1..Len(progress) : progress[q] = t)

\* C14: a solve that runs out of its 200 iterations aborts the run at that
\* step: the time levels are not rotated with its result and no later step
\* is executed
C14_StallAborts ==
  [][/\ (steps' # steps /\ ~converged') =>
          (time_pc' = "abort" /\ U_1' = U_1 /\ U_2' = U_2)
     /\ ~converged => steps' = steps]_vars

(***************************************************************************)
(* Start of a run and exchange of the DOF records                          *)
(***************************************************************************)
\* run_GMsFEM with the choice by the number of ranks that is commented out
\* in it: run_GMsFEM_serial for one rank, run_GMsFEM_parallel otherwise
run_GMsFEM_by_size(size) == IF size = 1 THEN "serial" ELSE "parallel"

\* run_GMsFEM(): the function it calls, whatever MPI_Comm_size is
run_GMsFEM(size) == "parallel"

\* the attributes Parameters::init gives the cells of the fine mesh, read
\* from a file or generated: cell el has attribute el + 1
ProperAttr(ne) == [e \in 1..ne |-> e]

\* the cells of the ParMesh of a rank, in the order of its elements
LocalCells(mesh, np, rank) ==
  SelectSeq([e \in 1..mesh.ne |-> e - 1],
            LAMBDA e : FineOwner(mesh.pattern, e, mesh.ne, np) = rank)

RECURSIVE Flatten(_)
Flatten(ss) == IF ss = <<>> THEN <<>> ELSE Head(ss) \o Flatten(Tail(ss))

\* the record of one cell with its DOFs pushed as the local vdofs, without
\* fespace.GetGlobalTDofNumber
CellRecordLocalDofs(mesh, np, e) ==
  LET nd == DofsPerCell(mesh.dimension)
  IN  <<-(mesh.attr[e + 1] - 1), nd>> \o ElementVDofs(e, nd)

\* the record of one cell: -cellID, the number of its DOFs, their global
\* true DOF numbers
CellRecord(mesh, np, e) ==
  LET nd == DofsPerCell(mesh.dimension)
  IN  <<-(mesh.attr[e + 1] - 1), nd>>
        \o GlobalTDofs(mesh.pattern, e, mesh.ne, np, nd)

\* my_cells_dofs as the loop over the elements of the rank fills it
SerializeCells(mesh, np, rank) ==
  LET cells == LocalCells(mesh, np, rank)
  IN  Flatten([q \in 1..Len(cells) |-> CellRecord(mesh, np, cells[q])])

\* my_cells_dofs.resize(n)
Resize(v, n) == [q \in 1..n |-> IF q <= Len(v) THEN v[q] ELSE 0]

\* one iteration of the loop that parses the gathered buffer into
\* map_cell_dofs: the outcomes it may have. A read past the end of the buffer
\* is undefined: the run dies, or goes on with what the read gives
ParseRecord(buf, tbl, k, globNE) ==
  LET at(q) == IF q <= Len(buf) THEN {buf[q]} ELSE Junk
      past(q) == q > Len(buf)
      dead == {[pc |-> "segv", tbl |-> tbl, k |-> k]}
  IN  IF k >= Len(buf)
        THEN {[pc |-> "abort", tbl |-> tbl, k |-> k]}
        ELSE IF buf[k + 1] > 0
          THEN {[pc |-> "abort", tbl |-> tbl, k |-> k + 1]}
          ELSE LET cellID == -buf[k + 1]
               IN  (IF past(k + 2) THEN dead ELSE {})
                   \cup UNION {
                     IF ~(cellID >= 0 /\ cellID < globNE)
                       THEN {[pc |-> "abort", tbl |-> tbl, k |-> k + 2]}
                     ELSE IF tbl[cellID + 1] # <<>>
                       THEN {[pc |-> "abort", tbl |-> tbl, k |-> k + 2]}
                     ELSE IF ndofs < 0
                       THEN {[pc |-> "length_error", tbl |-> tbl, k |-> k + 2]}
                     ELSE (IF past(k + 2 + ndofs) /\ ndofs > 0 THEN dead ELSE {})
                          \cup {[pc |-> "parse",
                                 tbl |-> [tbl EXCEPT ![cellID + 1] = dofs],
                                 k |-> k + 2 + ndofs] :
                                  dofs \in {[q \in 1..ndofs |->
                                              IF k + 2 + q <= Len(buf)
                                                THEN buf[k + 2 + q] ELSE jk] :
                                            jk \in Junk}}
                     : ndofs \in at(k + 2)}

\* the local variables of a rank when run_GMsFEM is called
NewRank ==
  [pc |-> "start", path |-> "none", my_cells_dofs |-> <<>>, rank |-> 1,
   ncells_dofs |-> 0, nglob_cells_dofs |-> 0, el |-> 0, k |-> 0,
   map_cell_dofs |-> <<>>, entered |-> 0, my_nrows |-> 0, Rrows |-> <<>>]

InitExch ==
  /\ PlanIdle
  /\ AsmIdle
  /\ TimeIdle
  /\ SyncIdle
  /\ IoIdle
  /\ comm_size \in 1..MaxProc
  /\ \E ne \in 1..MaxCells :
     \E pat \in (IF comm_size > 1 THEN {"ascending", "descending"}
                                  ELSE {"ascending"}) :
     \E eager \in BOOLEAN :
       xmesh = [dimension |-> 2, ne |-> ne, pattern |-> pat,
                attr |-> ProperAttr(ne), eager |-> eager]
  /\ xproc = [rank \in 0..(comm_size - 1) |-> NewRank]
  /\ net = {}
  /\ bcast = <<>>

XRanks == 0..(comm_size - 1)

\* run_GMsFEM() on one rank
RunGMsFEM ==
  /\ \E myid \in XRanks :
       /\ xproc[myid].pc = "start"
       /\ LET path == run_GMsFEM(comm_size)
          IN  xproc' = [xproc EXCEPT ![myid].path = path,
                                     ![myid].pc = IF path = "serial"
                                                    THEN "serial_run"
                                                    ELSE "serialize"]
  /\ UNCHANGED <<comm_size, xmesh, net, bcast>>
  /\ UNCHANGED exchFrame

\* the loop that fills my_cells_dofs
Serialize ==
  /\ \E myid \in XRanks :
       /\ xproc[myid].pc = "serialize"
       /\ xproc' = [xproc EXCEPT
                      ![myid].my_cells_dofs = SerializeCells(xmesh, comm_size, myid),
                      ![myid].pc = IF myid = 0 THEN "gather" ELSE "send"]
  /\ UNCHANGED <<comm_size, xmesh, net, bcast>>
  /\ UNCHANGED exchFrame

\* the tag of the MPI_Recv rank 0 is at, were both posted with the tag of
\* the size
RecvTagOfSize(pc) == 101

\* the tag of the MPI_Recv rank 0 is at: the size (101), then the records
\* (102)
RecvTag(pc) == IF pc = "gather" THEN 101 ELSE 102

\* rank # 0: MPI_Send is called: of the size with tag 101, of the records
\* with tag 102, of my_nrows with tag 103
SendPost ==
  /\ \E myid \in XRanks :
       LET s == xproc[myid]
           msg == IF s.pc = "send"
                    THEN [src |-> myid, tag |-> 101, data |-> <<Len(s.my_cells_dofs)>>]
                  ELSE IF s.pc = "send_data"
                    THEN [src |-> myid, tag |-> 102, data |-> s.my_cells_dofs]
                  ELSE [src |-> myid, tag |-> 103, data |-> <<s.my_nrows>>]
       IN  /\ s.pc \in {"send", "send_data", "send_rows"}
           /\ net' = net \cup {msg}
           /\ xproc' = [xproc EXCEPT ![myid].pc =
                          IF s.pc = "send" THEN "send_wait"
                          ELSE IF s.pc = "send_data" THEN "send_data_wait"
                          ELSE "send_rows_wait"]
  /\ UNCHANGED <<comm_size, xmesh, bcast>>
  /\ UNCHANGED exchFrame

\* MPI_Send returns: at once when the message is buffered, and when rank 0
\* has received it otherwise
SendReturn ==
  /\ \E myid \in XRanks :
       LET s == xproc[myid]
       IN  /\ s.pc \in {"send_wait", "send_data_wait", "send_rows_wait"}
           /\ xmesh.eager \/ ~(\E m \in net : m.src = myid)
           /\ xproc' = [xproc EXCEPT ![myid].pc =
                          IF s.pc = "send_wait" THEN "send_data"
                          ELSE IF s.pc = "send_data_wait" THEN "bcast_size"
                          ELSE "bcast_rows"]
  /\ UNCHANGED <<comm_size, xmesh, net, bcast>>
  /\ UNCHANGED exchFrame

\* rank 0, in the loop over the ranks 1..nproc-1: one MPI_Recv from that
\* rank, of the size, or of the records, which are copied behind its own
GatherRecords ==
  /\ xproc[0].pc \in {"gather", "gather_data"}
  /\ xproc[0].rank < comm_size
  /\ \E m \in net :
       /\ m.src = xproc[0].rank
       /\ m.tag = RecvTag(xproc[0].pc)
       /\ net' = net \ {m}
       /\ xproc' = IF xproc[0].pc = "gather"
                     THEN [xproc EXCEPT ![0].ncells_dofs = m.data[1],
                                        ![0].pc = "gather_data"]
                     ELSE [xproc EXCEPT
                             ![0].my_cells_dofs =
                                @ \o [q \in 1..xproc[0].ncells_dofs |-> m.data[q]],
                             ![0].rank = @ + 1,
                             ![0].pc = "gather"]
  /\ UNCHANGED <<comm_size, xmesh, bcast>>
  /\ UNCHANGED exchFrame

\* rank 0: the end of the loop over the ranks
GatherEnd ==
  /\ xproc[0].pc = "gather"
  /\ xproc[0].rank >= comm_size
  /\ xproc' = [xproc EXCEPT ![0].pc = "bcast_size"]
  /\ UNCHANGED <<comm_size, xmesh, net, bcast>>
  /\ UNCHANGED exchFrame

\* MPI_Bcast of nglob_cells_dofs from rank 0, and the resize on the others
BcastSize ==
  /\ \E myid \in XRanks :
       /\ xproc[myid].pc = "bcast_size"
       /\ IF myid = 0
            THEN /\ bcast' = Append(bcast, Len(xproc[0].my_cells_dofs))
                 /\ xproc' = [xproc EXCEPT
                                ![0].nglob_cells_dofs = Len(xproc[0].my_cells_dofs),
                                ![0].pc = "bcast_data"]
            ELSE /\ Len(bcast) >= 1
                 /\ bcast' = bcast
                 /\ xproc' = [xproc EXCEPT
                                ![myid].nglob_cells_dofs = bcast[1],
                                ![myid].my_cells_dofs = Resize(@, bcast[1]),
                                ![myid].pc = "bcast_data"]
  /\ UNCHANGED <<comm_size, xmesh, net>>
  /\ UNCHANGED exchFrame

\* MPI_Bcast of my_cells_dofs from rank 0; the parser starts with an empty
\* list for each of the globNE cells
BcastData ==
  /\ \E myid \in XRanks :
       /\ xproc[myid].pc = "bcast_data"
       /\ IF myid = 0
            THEN /\ bcast' = Append(bcast, xproc[0].my_cells_dofs)
                 /\ xproc' = [xproc EXCEPT
                                ![0].map_cell_dofs = [e \in 1..xmesh.ne |-> <<>>],
                                ![0].pc = "parse"]
            ELSE /\ Len(bcast) >= 2
                 /\ bcast' = bcast
                 /\ xproc' = [xproc EXCEPT
                                ![myid].my_cells_dofs =
                                   [q \in 1..xproc[myid].nglob_cells_dofs |->
                                      bcast[2][q]],
                                ![myid].map_cell_dofs = [e \in 1..xmesh.ne |-> <<>>],
                                ![myid].pc = "parse"]
  /\ UNCHANGED <<comm_size, xmesh, net>>
  /\ UNCHANGED exchFrame

\* one iteration of the parser loop, for el < globNE
ParseStep ==
  /\ \E myid \in XRanks :
       /\ xproc[myid].pc = "parse"
       /\ xproc[myid].el < xmesh.ne
       /\ \E out \in ParseRecord(xproc[myid].my_cells_dofs,
                                 xproc[myid].map_cell_dofs,
                                 xproc[myid].k, xmesh.ne) :
            xproc' = [xproc EXCEPT ![myid].pc = out.pc,
                                   ![myid].map_cell_dofs = out.tbl,
                                   ![myid].k = out.k,
                                   ![myid].el = @ + 1]
  /\ UNCHANGED <<comm_size, xmesh, net, bcast>>
  /\ UNCHANGED exchFrame

\* the end of the parser loop: the table is used from here on
ParseEnd ==
  /\ \E myid \in XRanks :
       /\ xproc[myid].pc = "parse"
       /\ xproc[myid].el >= xmesh.ne
       /\ xproc' = [xproc EXCEPT ![myid].pc = "table"]
  /\ UNCHANGED <<comm_size, xmesh, net, bcast>>
  /\ UNCHANGED exchFrame

\* the numbers of rows of R a rank may come out of its coarse cells with
RowCounts == {0, 2}

\* from the table to the first MPI_Allreduce: the coarse-cell loop and the
\* sums my_nrows, my_ncols, my_nnonzero, without communication
LocalRows ==
  /\ \E myid \in XRanks :
       /\ xproc[myid].pc = "table"
       /\ \E n \in RowCounts :
            xproc' = [xproc EXCEPT ![myid].my_nrows = n,
                                   ![myid].pc = "reduce_rows"]
  /\ UNCHANGED <<comm_size, xmesh, net, bcast>>
  /\ UNCHANGED exchFrame

\* MPI_Allreduce of my_nrows, then of my_ncols: the rank enters the call
ReduceEnter ==
  /\ \E myid \in XRanks :
       /\ xproc[myid].pc \in {"reduce_rows", "reduce_cols"}
       /\ xproc' = [xproc EXCEPT
                      ![myid].entered = @ + 1,
                      ![myid].pc = IF xproc[myid].pc = "reduce_rows"
                                     THEN "reduce_rows_wait"
                                     ELSE "reduce_cols_wait"]
  /\ UNCHANGED <<comm_size, xmesh, net, bcast>>
  /\ UNCHANGED exchFrame

\* MPI_Allreduce returns when every rank has entered it; after the second
\* one rank 0 turns to the loop over the ranks, the others to MPI_Send
ReduceReturn ==
  /\ \E myid \in XRanks :
       LET s == xproc[myid]
       IN  /\ s.pc \in {"reduce_rows_wait", "reduce_cols_wait"}
           /\ \A r \in XRanks : xproc[r].entered >= s.entered
           /\ xproc' = [xproc EXCEPT
                          ![myid].rank = 1,
                          ![myid].Rrows = IF myid = 0 /\ s.pc = "reduce_cols_wait"
                                            THEN <<0, s.my_nrows>> ELSE @,
                          ![myid].pc = IF s.pc = "reduce_rows_wait" THEN "reduce_cols"
                                       ELSE IF myid = 0 THEN "gather_rows"
                                       ELSE "send_rows"]
  /\ UNCHANGED <<comm_size, xmesh, net, bcast>>
  /\ UNCHANGED exchFrame

\* rank 0: one iteration of the loop that receives nrows (tag 103) from the
\* ranks 1..nproc-1 in turn, Rrows[rank + 1] = Rrows[rank] + nrows
GatherRows ==
  /\ xproc[0].pc = "gather_rows"
  /\ xproc[0].rank < comm_size
  /\ \E m \in net :
       /\ m.src = xproc[0].rank /\ m.tag = 103
       /\ net' = net \ {m}
       /\ xproc' = [xproc EXCEPT
                      ![0].Rrows = Append(@, @[xproc[0].rank + 1] + m.data[1]),
                      ![0].rank = @ + 1]
  /\ UNCHANGED <<comm_size, xmesh, bcast>>
  /\ UNCHANGED exchFrame

\* rank 0: the end of that loop
GatherRowsEnd ==
  /\ xproc[0].pc = "gather_rows"
  /\ xproc[0].rank >= comm_size
  /\ xproc' = [xproc EXCEPT ![0].pc = "bcast_rows"]
  /\ UNCHANGED <<comm_size, xmesh, net, bcast>>
  /\ UNCHANGED exchFrame

\* MPI_Bcast of Rrows from rank 0
BcastRows ==
  /\ \E myid \in XRanks :
       /\ xproc[myid].pc = "bcast_rows"
       /\ IF myid = 0
            THEN /\ bcast' = Append(bcast, xproc[0].Rrows)
                 /\ xproc' = [xproc EXCEPT ![0].pc = "exchanged"]
            ELSE /\ Len(bcast) >= 3
                 /\ bcast' = bcast
                 /\ xproc' = [xproc EXCEPT ![myid].Rrows = bcast[3],
                                           ![myid].pc = "exchanged"]
  /\ UNCHANGED <<comm_size, xmesh, net>>
  /\ UNCHANGED exchFrame

NextExch ==
  \/ RunGMsFEM \/ Serialize \/ SendPost \/ SendReturn \/ GatherRecords
  \/ GatherEnd \/ BcastSize \/ BcastData \/ ParseStep \/ ParseEnd
  \/ LocalRows \/ ReduceEnter \/ ReduceReturn \/ GatherRows \/ GatherRowsEnd
  \/ BcastRows

SpecExch == InitExch /\ [][NextExch]_vars

\* every rank is a running process: a step that stays possible is taken
SpecExchLive == SpecExch /\ WF_vars(NextExch)

Fatal == {"abort", "segv", "length_error"}

\* C15: after the exchange every rank holds the same table, with every cell
\* 0..globNE-1 in it once, mapped to the global true DOFs its owner
\* serialised, in their order; the buffer is used up by exactly these globNE
\* records and no rank dies on the way
C15_SameTableEverywhere ==
  /\ \A r \in XRanks : xproc[r].pc \notin Fatal
  /\ \A r \in XRanks : xproc[r].pc = "table" =>
       /\ Len(xproc[r].map_cell_dofs) = xmesh.ne
       /\ xproc[r].k = Len(xproc[r].my_cells_dofs)
       /\ \A e \in 0..(xmesh.ne - 1) :
            xproc[r].map_cell_dofs[e + 1] =
              GlobalTDofs(xmesh.pattern, e, xmesh.ne, comm_size,
                          DofsPerCell(xmesh.dimension))
       /\ \A o \in XRanks : xproc[o].pc = "table" =>
            xproc[o].map_cell_dofs = xproc[r].map_cell_dofs

\* two ranks, the upper one holding the first cells, both with the table
C15_Witness ==
  /\ comm_size = 2
  /\ xmesh.ne >= 2
  /\ xmesh.pattern = "descending"
  /\ \A r \in XRanks : xproc[r].pc = "table"

(***************************************************************************)
(* The parser of the gathered buffer on its own, over buffers of any       *)
(* content                                                                 *)
(***************************************************************************)
\* the values an entry of such a buffer takes
BufValues == {-2, -1, 0, 1, 2}

Buffers == UNION {[1..n -> BufValues] : n \in 0..MaxBuf}

\* rank 0 of a run of one rank at the entry of the parser loop, with buf as
\* its my_cells_dofs
InitParse ==
  /\ PlanIdle
  /\ AsmIdle
  /\ TimeIdle
  /\ SyncIdle
  /\ IoIdle
  /\ comm_size = 1
  /\ \E ne \in 1..MaxParseCells :
       /\ xmesh = [dimension |-> 2, ne |-> ne, pattern |-> "ascending",
                   attr |-> ProperAttr(ne), eager |-> TRUE]
       /\ \E buf \in Buffers :
            xproc = [rank \in {0} |->
                       [NewRank EXCEPT !.pc = "parse", !.path = "parallel",
                                       !.my_cells_dofs = buf,
                                       !.nglob_cells_dofs = Len(buf),
                                       !.map_cell_dofs = [e \in 1..ne |-> <<>>]]]
  /\ net = {}
  /\ bcast = <<>>

NextParse == ParseStep \/ ParseEnd

SpecParse == InitParse /\ [][NextParse]_vars

\* the cell IDs of the records a buffer is made of, from entry k + 1 on: a
\* record is -cellID, the number of its DOFs, and that many DOFs
RECURSIVE RecordIDs(_, _)
RecordIDs(buf, k) ==
  IF k + 2 > Len(buf) THEN <<>>
  ELSE IF buf[k + 2] < 0 \/ k + 2 + buf[k + 2] > Len(buf) THEN <<>>
  ELSE <<-buf[k + 1]>> \o RecordIDs(buf, k + 2 + buf[k + 2])

\* a buffer with a record whose cell ID is out of 0..globNE-1, or with a cell
\* ID in more than one record
HasBadRecord(buf, globNE) ==
  LET ids == RecordIDs(buf, 0)
  IN  \/ \E i \in 1..Len(ids) : ~(ids[i] >= 0 /\ ids[i] < globNE)
      \/ \E i \in 1..Len(ids) : \E j \in 1..Len(ids) :
           i # j /\ ids[i] = ids[j]

\* C16: a rank whose buffer holds a record with a cell ID out of range, or a
\* cell ID in more than one record, never gets to use the table
C16_BadRecordFatal ==
  \A r \in XRanks :
    xproc[r].pc = "table" =>
      ~HasBadRecord(xproc[r].my_cells_dofs, xmesh.ne)

\* C18: the path a rank takes is chosen by the number of ranks: with one rank
\* the serial path and no message passing (no send, no broadcast), with more
\* the parallel path
C18_ModeByWorkerCount ==
  /\ \A r \in XRanks :
       xproc[r].path # "none" => xproc[r].path = run_GMsFEM_by_size(comm_size)
  /\ comm_size = 1 => (net = {} /\ bcast = <<>>)

(***************************************************************************)
(* Ranges of coarse cells of the ranks                                     *)
(***************************************************************************)
\* the ranges [my_start_cell, my_end_cell) of np ranks over n coarse cells
\* follow one another from 0 to n, the first n mod np of them with one cell
\* more than n / np
RangesPartition(n, np) ==
  /\ my_start_cell(n, np, 0) = 0
  /\ my_end_cell(n, np, np - 1) = n
  /\ \A r \in 0..(np - 2) : my_end_cell(n, np, r) = my_start_cell(n, np, r + 1)
  /\ \A r \in 0..(np - 1) :
       my_end_cell(n, np, r) - my_start_cell(n, np, r) =
         (n \div np) + (IF r < n % np THEN 1 ELSE 0)
  /\ \A c \in 0..(n - 1) :
       Cardinality({r \in 0..(np - 1) :
                      my_start_cell(n, np, r) <= c /\ c < my_end_cell(n, np, r)}) = 1

\* C17: the ranges of the ranks are contiguous, disjoint and cover the coarse
\* cells, the first n mod p ranks with floor(n/p)+1 cells and the others with
\* floor(n/p); in the 2D loop of a parallel run a rank handles a coarse cell
\* only if its range holds it, stores it at its place in the range, and has
\* handled its whole range when the loop is over
C17_RangesAndOwnership ==
  (mode = "parallel" /\ param.dimension = 2) =>
    /\ RangesPartition(NCoarseCells(param), nproc)
    /\ \A rank \in DOMAIN proc :
         LET s == proc[rank]
             start == my_start_cell(NCoarseCells(param), nproc, rank)
             end == my_end_cell(NCoarseCells(param), nproc, rank)
         IN  /\ Len(s.R) = end - start
             /\ \A c \in Processed(s) :
                  /\ s.R[c].cell = start + c - 1
                  /\ start <= s.R[c].cell /\ s.R[c].cell < end
             /\ s.pc \notin {"local", "abort", "segv"} =>
                  Processed(s) = 1..(end - start)
    /\ \A r1 \in DOMAIN proc : \A r2 \in DOMAIN proc :
         r1 # r2 =>
           {proc[r1].R[c].cell : c \in Processed(proc[r1])}
             \cap {proc[r2].R[c].cell : c \in Processed(proc[r2])} = {}

\* two ranks and four coarse cells: both ranks are through the loop, with
\* cells 0 and 1 on rank 0 and cells 2 and 3 on rank 1
C17_Witness ==
  /\ mode = "parallel" /\ param.dimension = 2
  /\ nproc = 2
  /\ NCoarseCells(param) = 4
  /\ \A rank \in DOMAIN proc : proc[rank].pc \notin {"local", "abort", "segv"}
  /\ Processed(proc[0]) = {1, 2} /\ Processed(proc[1]) = {1, 2}
  /\ proc[1].R[1].cell = 2 /\ proc[1].R[2].cell = 3

(***************************************************************************)
(* The two maps of a coarse cell of a parallel run                         *)
(***************************************************************************)
\* the global true DOF that the exchanged table gives DOF g of the
\* non-distributed fine space
TrueDofOf(g) ==
  LET nd == DofsPerCell(param.dimension)
  IN  map_cell_dofs[(g \div nd) + 1][(g % nd) + 1]

\* the fine cells of every rank come before those of the higher ranks
CellsInRankOrder == map_cell_dofs = ExchangedTable("ascending", param, nproc)

SyncSteps == {2, 10}

SRanks == 0..(sync.nproc - 1)

\* the ranks whose rows of M_coarse and S_coarse a rank's rows are coupled to
Neighbours(rank) == IF sync.coupled THEN SRanks \ {rank} ELSE {}

\* the local variables of a rank at the entry of the time loop
NewStepper ==
  [pc |-> "mult_M", t_step |-> 1, U_0 |-> 0, U_1 |-> 0, U_2 |-> 0,
   solved |-> 0, read |-> {}]

InitSync ==
  /\ PlanIdle
  /\ AsmIdle
  /\ TimeIdle
  /\ ExchIdle
  /\ IoIdle
  /\ \E np \in 1..MaxProc : \E N \in SyncSteps : \E cp \in BOOLEAN :
       /\ sync = [nproc |-> np, n_time_steps |-> N, tenth |-> CDiv(N, 10),
                  coupled |-> cp]
       /\ sproc = [rank \in 0..(np - 1) |-> NewStepper]
       /\ chan = [link \in (0..(np - 1)) \X (0..(np - 1)) |-> <<>>]
       /\ arrived = [rank \in 0..(np - 1) |-> 0]

\* an MPI_Allreduce that returns without waiting for the other ranks
AllreduceNoWait(k) == TRUE

\* MPI_Allreduce: the k-th call of a rank returns when every rank has entered
\* its k-th call
AllreduceDone(k) == \A rank \in SRanks : arrived[rank] >= k

\* M.Mult(y, z0) with y = 2*U_1 - U_2, and S.Mult(U_1, z1): the rank sends
\* the entries its neighbours need
HaloSend ==
  /\ \E rank \in SRanks :
       LET s == sproc[rank]
           msg == IF s.pc = "mult_M" THEN {<<"U_1", s.U_1>>, <<"U_2", s.U_2>>}
                                     ELSE {<<"U_1", s.U_1>>}
       IN  /\ s.pc \in {"mult_M", "mult_S"}
           /\ chan' = [link \in DOMAIN chan |->
                         IF link[1] = rank /\ link[2] \in Neighbours(rank)
                           THEN Append(chan[link], msg) ELSE chan[link]]
           /\ sproc' = [sproc EXCEPT
                          ![rank].read = @ \cup msg,
                          ![rank].pc = IF s.pc = "mult_M" THEN "mult_M_wait"
                                                          ELSE "mult_S_wait"]
  /\ UNCHANGED <<sync, arrived>>
  /\ UNCHANGED syncFrame

\* the end of M.Mult and of S.Mult: the entries of the neighbours are in
HaloRecv ==
  /\ \E rank \in SRanks :
       LET s == sproc[rank]
       IN  /\ s.pc \in {"mult_M_wait", "mult_S_wait"}
           /\ \A src \in Neighbours(rank) : chan[<<src, rank>>] # <<>>
           /\ chan' = [link \in DOMAIN chan |->
                         IF link[2] = rank /\ link[1] \in Neighbours(rank)
                           THEN Tail(chan[link]) ELSE chan[link]]
           /\ sproc' = [sproc EXCEPT
                          ![rank].read =
                             @ \cup UNION {Head(chan[<<src, rank>>]) :
                                             src \in Neighbours(rank)},
                          ![rank].pc = IF s.pc = "mult_M_wait" THEN "mult_S"
                                                               ELSE "cg"]
  /\ UNCHANGED <<sync, arrived>>
  /\ UNCHANGED syncFrame

\* M_solver.Mult(RHS, U_0) and GlobalLpNorm: the rank enters the
\* MPI_Allreduce of the dot product, or that of the norm
AllreduceEnter ==
  /\ \E rank \in SRanks :
       /\ sproc[rank].pc \in {"cg", "norm"}
       /\ arrived' = [arrived EXCEPT ![rank] = @ + 1]
       /\ sproc' = [sproc EXCEPT
                      ![rank].pc = IF sproc[rank].pc = "cg" THEN "cg_wait"
                                                            ELSE "norm_wait"]
  /\ UNCHANGED <<sync, chan>>
  /\ UNCHANGED syncFrame

\* the end of the solve: U_0 is written, then U_2 = U_1; U_1 = U_0
SolveEnd ==
  /\ \E rank \in SRanks :
       LET s == sproc[rank]
       IN  /\ s.pc = "cg_wait"
           /\ AllreduceDone(arrived[rank])
           /\ sproc' = [sproc EXCEPT ![rank].U_0 = s.t_step,
                                     ![rank].U_2 = s.U_1,
                                     ![rank].U_1 = s.t_step,
                                     ![rank].solved = s.t_step,
                                     ![rank].pc = "norm"]
  /\ UNCHANGED <<sync, chan, arrived>>
  /\ UNCHANGED syncFrame

\* the end of GlobalLpNorm, the gate t_step % tenth and the rest of the
\* iteration, which has no communication; ++t_step
StepEnd ==
  /\ \E rank \in SRanks :
       LET s == sproc[rank]
       IN  /\ s.pc = "norm_wait"
           /\ AllreduceDone(arrived[rank])
           /\ \E gate \in GateOutcomes(s.t_step, sync.tenth) :
                sproc' = [sproc EXCEPT ![rank] =
                  IF gate = "sigfpe"
                    THEN [s EXCEPT !.pc = "sigfpe"]
                    ELSE [s EXCEPT !.t_step = s.t_step + 1,
                                   !.read = {},
                                   !.pc = IF s.t_step + 1 <= sync.n_time_steps
                                            THEN "mult_M" ELSE "done"]]
  /\ UNCHANGED <<sync, chan, arrived>>
  /\ UNCHANGED syncFrame

NextSync == HaloSend \/ HaloRecv \/ AllreduceEnter \/ SolveEnd \/ StepEnd

SpecSync == InitSync /\ [][NextSync]_vars

\* C19: no rank is in step t+1 before every rank has completed the solve of
\* step t; the step counters of two ranks differ by at most one; the levels a
\* rank reads in step t+1, its own and those of its neighbours, are the ones
\* the solve of step t wrote (U_1) and the ones it moved to U_2
C19_LockStep ==
  \A r1 \in SRanks :
    /\ \A r2 \in SRanks :
         /\ sproc[r2].solved >= sproc[r1].t_step - 1
         /\ sproc[r1].t_step - sproc[r2].t_step <= 1
         /\ sproc[r2].t_step - sproc[r1].t_step <= 1
    /\ \A rd \in sproc[r1].read :
         /\ rd[1] = "U_1" => rd[2] = sproc[r1].t_step - 1
         /\ rd[1] = "U_2" =>
              rd[2] = (IF sproc[r1].t_step >= 2 THEN sproc[r1].t_step - 2 ELSE 0)

\* two coupled ranks: one has read its levels in step 3 and waits for those
\* of its neighbour, which is still in step 2, its solve done
C19_Witness ==
  /\ sync.nproc = 2
  /\ sync.coupled
  /\ \E r1 \in SRanks : \E r2 \in SRanks :
       /\ sproc[r1].t_step = 3 /\ sproc[r1].pc = "mult_M_wait"
       /\ sproc[r1].read # {}
       /\ sproc[r2].t_step = 2 /\ sproc[r2].solved = 2

(***************************************************************************)
(* Accepted configurations and the number of time steps                    *)
(***************************************************************************)
\* C30: every configuration Parameters::check_parameters accepts has dt > 0
\* and gives n_time_steps >= 1; the vector of the source samples is made
\* with that length, and the index t_step - 1 read in a step is inside it
C30_AcceptedGivesSteps ==
  /\ tparam # <<>> => tparam.dt > 0
  /\ time_pc \notin {"length_error", "bad_alloc"}
  /\ time_pc \in {"loop", "done", "sigfpe"} =>
       /\ n_time_steps >= 1
       /\ Len(time_values) = n_time_steps
       /\ \A t \in 1..Len(steps) : steps[t] - 1 >= 0 /\ steps[t] - 1 < Len(time_values)

(***************************************************************************)
(* What the time loop sets up and what it leaves alone                     *)
(***************************************************************************)
\* C23: the preconditioner of the mass solve is set up once in a run, before
\* the first step, and no step sets one up
C23_PrecOnce ==
  time_pc \in {"loop", "done", "sigfpe"} => prec_built = <<0>>

TotalMapLength ==
  SumSeq([q \in 1..nproc |->
            SumSeq([c \in 1..Len(proc[q - 1].local2global) |->
                      Len(proc[q - 1].local2global[c])])])

\* C22: a run that gets to construct R, serial or parallel, has compared the
\* total of the map lengths over all coarse cells with the dimension of the
\* fine operator and found them equal; with a mismatch it has aborted before
C22_ColumnsVerified ==
  \A rank \in DOMAIN proc :
    proc[rank].pc \in {"construct", "built"} => TotalMapLength = FineDim(param)

\* C27: when R is assembled every read local2global[r][j] is inside the map:
\* the map of every coarse cell whose local basis was computed has exactly as
\* many entries as the basis has rows, and no run dies on such a read
C27_MapReadsInBounds ==
  \A rank \in DOMAIN proc :
    LET s == proc[rank]
    IN  /\ s.pc \in {"assemble", "construct", "built"} =>
             \A c \in Processed(s) : Len(s.local2global[c]) = s.R[c].h
        /\ (s.pc = "segv" /\ s.Ri # <<>>) =>
             \A c \in Processed(s) : Len(s.local2global[c]) >= s.R[c].h

\* C28: at every point of the assembly loop and at its end Ri[0] = 0, Ri does
\* not decrease, k rows are complete and Ri[k] is the number p of entries
\* written; no write is past the end of Ri (n_rows + 1 slots), Rj or Rdata
\* (n_non_zero slots); when the loop is over k is the row count and p the
\* allocated number of non-zeros, the sum of h*w
C28_CsrWellFormed ==
  \A rank \in DOMAIN proc :
    LET s == proc[rank]
    IN  s.pc \in {"assemble", "construct", "built"} =>
          /\ s.Ri[1] = 0
          /\ Len(s.Ri) = s.k + 1
          /\ \A q \in 1..s.k : s.Ri[q] <= s.Ri[q + 1]
          /\ s.Ri[s.k + 1] = s.p
          /\ Len(s.Rj) = s.p /\ Len(s.Rdata) = s.p
          /\ s.k <= s.my_nrows /\ s.p <= s.my_nnonzero
          /\ s.my_nnonzero = SumSeq([c \in 1..Len(s.R) |-> s.R[c].h * s.R[c].w])
          /\ s.pc \in {"construct", "built"} =>
               (s.k = s.my_nrows /\ s.p = s.my_nnonzero)

\* R is built from two coarse cells or more, of bases that are not square
C28_Witness ==
  \E rank \in DOMAIN proc :
    LET s == proc[rank]
    IN  /\ s.pc = "built"
        /\ Len(s.R) >= 2
        /\ s.k >= 2
        /\ s.p > s.k
        /\ \E c \in 1..Len(s.R) : s.R[c].h # s.R[c].w

(***************************************************************************)
(* The fine cells of a coarse cell                                         *)
(***************************************************************************)
\* the fine cells between the accumulated offsets of coarse cell
\* (ix, iy, iz): on every axis the groups of the planner, one after another
OwnBlock(pm, cell) ==
  LET ix == cell % pm.gms_Nx
      iy == (cell \div pm.gms_Nx) % pm.gms_Ny
      iz == cell \div (pm.gms_Nx * pm.gms_Ny)
      gx == PerCoarse(pm.nx, pm.gms_Nx)
      gy == PerCoarse(pm.ny, pm.gms_Ny)
      gz == PerCoarse(pm.nz, pm.gms_Nz)
      x0 == SumSeq([q \in 1..ix |-> gx[q]])
      y0 == SumSeq([q \in 1..iy |-> gy[q]])
      z0 == SumSeq([q \in 1..iz |-> gz[q]])
  IN  {z * pm.nx * pm.ny + y * pm.nx + x :
         x \in x0..(x0 + gx[ix + 1] - 1),
         y \in y0..(y0 + gy[iy + 1] - 1),
         z \in z0..(z0 + gz[iz + 1] - 1)}

\* the coarse cell (from 0) that slot c of the arrays of a rank stands for
CoarseCellOf(rank, c) ==
  c - 1 + (IF mode = "serial" THEN 0
           ELSE my_start_cell(NCoarseCells(param), nproc, rank))

\* C26: every glob_cell computed while the coefficients of a coarse cell are
\* gathered is a cell of the fine mesh, 0..n_elements-1; the cells of a
\* coarse cell are those between its accumulated offsets, so that no fine
\* cell is produced for two coarse cells, and a single-process loop that is
\* over has produced every fine cell
C26_FineCellsPartitioned ==
  \A rank \in DOMAIN proc :
    LET s == proc[rank]
        done == {c \in 1..Len(s.glob_cells) : s.glob_cells[c] # {}}
    IN  /\ \A c \in done :
             /\ \A g \in s.glob_cells[c] : g >= 0 /\ g < NElements(param)
             /\ s.glob_cells[c] = OwnBlock(param, CoarseCellOf(rank, c))
        /\ \A c1 \in done : \A c2 \in done :
             c1 # c2 => s.glob_cells[c1] \cap s.glob_cells[c2] = {}
        /\ (mode = "serial" /\ s.pc \notin {"local", "abort", "segv"}) =>
             UNION {s.glob_cells[c] : c \in done} = 0..(NElements(param) - 1)

(***************************************************************************)
(* The output files of a rank of run_GMsFEM_parallel                       *)
(* An open succeeds or fails; what is written goes to the file only if the *)
(* open succeeded.                                                         *)
(***************************************************************************)
\* the matrices written when param.output.print_matrices is set, in order
DumpFiles ==
  <<"r_local", "r_global", "r_global_t", "m_fine", "s_fine", "m_coarse",
    "s_coarse">>

InitIo ==
  /\ PlanIdle
  /\ AsmIdle
  /\ TimeIdle
  /\ ExchIdle
  /\ SyncIdle
  /\ \E N \in 1..MaxIoSteps : \E sn \in SnapSteps : \E pm \in BOOLEAN :
       io = [pc |-> "log", n_time_steps |-> N, step_snap |-> sn,
             print_matrices |-> pm, dump |-> 1, t_step |-> 0, opened |-> <<>>]

\* ofstream f(name); MFEM_VERIFY(f, "Cannot open file"): the run aborts when
\* the open failed, and goes on to pc otherwise
OpenVerified(s, file, ok, pc) ==
  [s EXCEPT !.opened = Append(@, [file |-> file, t_step |-> s.t_step, ok |-> ok]),
            !.pc = IF ok THEN pc ELSE "abort"]

\* ofstream f(name) with no look at the stream: the run goes on
OpenUnverified(s, file, ok) ==
  [s EXCEPT !.opened = Append(@, [file |-> file, t_step |-> s.t_step, ok |-> ok])]

\* ofstream mesh_ofs(...) and ofstream sol_ofs(...) of the time loop: no
\* verify follows
OpenLoopFile(s, file, ok) == OpenUnverified(s, file, ok)

\* ofstream out(fileout.c_str()); MFEM_VERIFY(out, ...)
OpenLog ==
  /\ io # <<>>
  /\ io.pc = "log"
  /\ \E ok \in BOOLEAN :
       io' = OpenVerified(io, "outputlog", ok,
                          IF io.print_matrices THEN "dumps" ELSE "loop")
  /\ UNCHANGED ioFrame

\* the block under param.output.print_matrices: one file after the other,
\* each verified
DumpMatrix ==
  /\ io # <<>>
  /\ io.pc = "dumps"
  /\ \E ok \in BOOLEAN :
       io' = [OpenVerified(io, DumpFiles[io.dump], ok,
                           IF io.dump < Len(DumpFiles) THEN "dumps" ELSE "loop")
                EXCEPT !.dump = io.dump + 1]
  /\ UNCHANGED ioFrame

\* one iteration of the time loop: at a multiple of step_snap the mesh file
\* and the solution file of the step are opened and written
IoLoopStep ==
  /\ io # <<>>
  /\ io.pc = "loop"
  /\ io.t_step < io.n_time_steps
  /\ LET s == [io EXCEPT !.t_step = io.t_step + 1]
     IN  IF s.t_step % s.step_snap = 0
           THEN \E ok1 \in BOOLEAN : \E ok2 \in BOOLEAN :
                  io' = LET a == OpenLoopFile(s, "mesh", ok1)
                        IN  IF a.pc = "abort" THEN a
                                              ELSE OpenLoopFile(a, "sol", ok2)
           ELSE io' = s
  /\ UNCHANGED ioFrame

\* the exit of the time loop
IoLoopEnd ==
  /\ io # <<>>
  /\ io.pc = "loop"
  /\ io.t_step >= io.n_time_steps
  /\ io' = [io EXCEPT !.pc = "done"]
  /\ UNCHANGED ioFrame

NextIo == OpenLog \/ DumpMatrix \/ IoLoopStep \/ IoLoopEnd

SpecIo == InitIo /\ [][NextIo]_vars

\* C21: an open that fails is fatal: the run is aborted, nothing is opened or
\* written after it, and no further step is executed
C21_OpenFailureFatal ==
  io # <<>> =>
    \A q \in 1..Len(io.opened) :
      ~io.opened[q].ok =>
        /\ io.pc = "abort"
        /\ q = Len(io.opened)
        /\ io.t_step = io.opened[q].t_step

\* C29: the parser never reads past the end of the buffer: no rank dies on
\* such a read, and the index k stays within the buffer (a record filled with
\* values from behind the buffer moves k past its end)
C29_ParserInBounds ==
  \A r \in XRanks :
    /\ xproc[r].pc # "segv"
    /\ xproc[r].k <= Len(xproc[r].my_cells_dofs)

(***************************************************************************)
(* Completion of the exchanges of the setup                                *)
(***************************************************************************)
\* every rank is through the gather of the DOF records, the two broadcasts,
\* the two all-reduces, the gather of the row counts and its broadcast, and
\* no message is left unreceived
ExchangeComplete ==
  /\ \A r \in XRanks : xproc[r].pc = "exchanged"
  /\ net = {}

\* C25: the exchanges of the setup end on every rank, whether MPI_Send
\* returns at once or only when the message is received, and every message
\* sent has been received by then
C25_ExchangeCompletes == <>[]ExchangeComplete

\* all ranks of a run of MaxProc ranks whose sends wait for the receive are
\* through, each with the row ranges rank 0 has broadcast
C25_Witness ==
  /\ comm_size = MaxProc
  /\ ~xmesh.eager
  /\ ExchangeComplete
  /\ Len(bcast) = 3
  /\ \A r \in XRanks : xproc[r].Rrows = bcast[3] /\ Len(bcast[3]) = comm_size + 1

====
